---- MODULE Spec2Model ----
(***************************************************************************)
(* A state-machine model of the fasting diary web application (src/app.py).*)
(*                                                                         *)
(* Dates are integers (a number of days); a text is a sequence of          *)
(* one-character strings.  The relational store is the SQLite file the     *)
(* application configures: integer primary keys without AUTOINCREMENT      *)
(* (a new row gets max(id)+1) and no foreign-key enforcement.              *)
(* Entry fields that no handler reads back (weight, energy, water_ml,      *)
(* mood, feelings, timestamps) are not part of the state.                  *)
(***************************************************************************)
EXTENDS Integers, Sequences, FiniteSets, TLC

VARIABLES
    users,       \* table users: set of [id, username, password_hash]
    session,     \* the client's session["user_id"]; 0 when the key is absent
    entries,     \* table entries: set of [id, when, day_number]
    photos,      \* table photos: set of [id, filename, entry_id]
    files,       \* names of the files in UPLOAD_DIR
    env,         \* os.environ["FAST_START_DATE"]: [kind, d]
    today,       \* date.today()
    resp,        \* the response to the last request, and what the request did
    savedStart,  \* history: entry id -> fast_start_date() read by its last save
    lastAuth,    \* history: the client's last logout or accepted login, under
                 \* two readings of "accepted" (exact / stripped username)
    saver,       \* a create/edit POST in progress (concurrent specification)
    deleter      \* a delete-entry POST in progress (concurrent specification)

vars == <<users, session, entries, photos, files, env, today, resp,
          savedStart, lastAuth, saver, deleter>>

store == <<entries, photos, files>>

----------------------------------------------------------------------------
(* Bounds of the model *)

MaxId == 2
MaxPhotoId == 2
MaxHex == 2
DMax == 1
MaxUsers == 2
MaxPerDay == 2
MaxStart == 1

(* Program constants *)

FastDays == 7
FullPercent == 100
HttpOk == 200
HttpFound == 302
HttpNotFound == 404
HttpServerError == 500

----------------------------------------------------------------------------
(* Small helpers *)

Max(S) == CHOOSE x \in S : \A y \in S : y <= x

Min(S) == CHOOSE x \in S : \A y \in S : x <= y

Range(s) == {s[i] : i \in 1..Len(s)}

IsInjective(s) == \A i, j \in 1..Len(s) : i /= j => s[i] /= s[j]

----------------------------------------------------------------------------
(* Texts *)

IsSpace(c) == c = " "

RECURSIVE LStrip(_)
LStrip(s) == IF s /= <<>> /\ IsSpace(Head(s)) THEN LStrip(Tail(s)) ELSE s

RECURSIVE RStrip(_)
RStrip(s) ==
    IF s /= <<>> /\ IsSpace(s[Len(s)])
    THEN RStrip(SubSeq(s, 1, Len(s) - 1))
    ELSE s

Strip(s) == RStrip(LStrip(s))

LowerChar(c) ==
    CASE c = "P" -> "p"
      [] c = "N" -> "n"
      [] c = "G" -> "g"
      [] c = "J" -> "j"
      [] c = "E" -> "e"
      [] c = "W" -> "w"
      [] c = "B" -> "b"
      [] c = "I" -> "i"
      [] c = "F" -> "f"
      [] OTHER -> c

Lower(s) == [i \in 1..Len(s) |-> LowerChar(s[i])]

HasDot(s) == \E i \in 1..Len(s) : s[i] = "."

\* filename.rsplit(".", 1)[1]: what follows the last dot
RSplitExt(s) ==
    LET k == Max({i \in 1..Len(s) : s[i] = "."})
    IN  SubSeq(s, k + 1, Len(s))

ALLOWED_EXTENSIONS ==
    { <<"p","n","g">>, <<"j","p","g">>, <<"j","p","e","g">>,
      <<"w","e","b","p">>, <<"g","i","f">> }

allowed_file(filename) ==
    HasDot(filename) /\ Lower(RSplitExt(filename)) \in ALLOWED_EXTENSIONS

----------------------------------------------------------------------------
(* Users and the session *)

generate_password_hash(password) == <<"hash", password>>

\* a password check that accepts every password
check_password_any(user, password) == TRUE

check_password(user, password) ==
    user.password_hash = generate_password_hash(password)

UserByName(username) == {u \in users : u.username = username}

\* g.user, as the id of the user attached to the request; 0 for None
load_user ==
    IF session /= 0 /\ (\E u \in users : u.id = session) THEN session ELSE 0

----------------------------------------------------------------------------
(* Locations and responses *)

Loc(route, id, nroute, nid) ==
    [route |-> route, id |-> id, nroute |-> nroute, nid |-> nid]

NoLoc == Loc("", 0, "", 0)

BaseResp(route, method, id) ==
    [route |-> route, method |-> method, id |-> id, status |-> 0,
     loc |-> NoLoc, flashed |-> <<>>, guser |-> load_user, removed |-> 0,
     progress |-> 0, done_days |-> 0, today_num |-> 0, start |-> 0]

Render(route, method, id, flashed) ==
    [BaseResp(route, method, id) EXCEPT !.status = HttpOk, !.flashed = flashed]

Redirect(route, method, id, loc, flashed) ==
    [BaseResp(route, method, id) EXCEPT
        !.status = HttpFound, !.loc = loc, !.flashed = flashed]

Abort(route, method, id, status) ==
    [BaseResp(route, method, id) EXCEPT !.status = status]

GuardedRoutes == {"entry_new", "entry_edit", "delete_entry", "delete_photo"}

IsLoginRedirect(r) ==
    /\ r.status = HttpFound
    /\ r.loc.route = "login"

----------------------------------------------------------------------------
(* The stores *)

EntryIds(E) == {e.id : e \in E}

EntryGet(E, id) == CHOOSE e \in E : e.id = id

PhotoIds(P) == {p.id : p \in P}

PhotoGet(P, id) == CHOOSE p \in P : p.id = id

\* SQLite rowid for a table without AUTOINCREMENT
NextRowId(ids) == IF ids = {} THEN 1 ELSE Max(ids) + 1

\* a relationship that loads no photo (no cascade on delete)
PhotosOf_none(P, entry_id) == {}

\* entry.photos
PhotosOf(P, entry_id) == {p \in P : p.entry_id = entry_id}

----------------------------------------------------------------------------
(* Day numbers *)

NoEnv == [kind |-> "unset", d |-> 0]

fast_start_date(E, ev, now) ==
    IF ev.kind = "date" THEN ev.d
    ELSE IF E /= {} THEN Min({e.when : e \in E})
    ELSE now

\* a day number that counts the start date as day 0
compute_day_number_zero(d, E, ev, now) == d - fast_start_date(E, ev, now)

compute_day_number(d, E, ev, now) == (d - fast_start_date(E, ev, now)) + 1

----------------------------------------------------------------------------
(* Uploads *)

Flash(message, category) == <<message, category>>

StoredName(hex, ext) == [hex |-> hex, ext |-> ext]

NumAllowed(uploads) ==
    Cardinality({i \in 1..Len(uploads) : uploads[i] /= <<>> /\ allowed_file(uploads[i])})

\* uploads: the submitted filenames, in order; hexes: the uuid4 values drawn,
\* one for each file that is saved
RECURSIVE save_uploaded_files(_, _)
save_uploaded_files(uploads, hexes) ==
    IF uploads = <<>> THEN [saved |-> <<>>, flashed |-> <<>>]
    ELSE LET f == Head(uploads) IN
         IF f = <<>> THEN save_uploaded_files(Tail(uploads), hexes)
         ELSE IF allowed_file(f)
         THEN LET rest == save_uploaded_files(Tail(uploads), Tail(hexes))
              IN  [saved |-> <<StoredName(Head(hexes), Lower(RSplitExt(f)))>> \o rest.saved,
                   flashed |-> rest.flashed]
         ELSE LET rest == save_uploaded_files(Tail(uploads), hexes)
              IN  [saved |-> rest.saved,
                   flashed |-> <<Flash("Unsupported file type", "error")>> \o rest.flashed]

\* uuid4 values do not repeat: none names a file or a photo that exists
FreshHexes(hexes, n) ==
    /\ Len(hexes) = n
    /\ IsInjective(hexes)
    /\ \A i \in 1..Len(hexes) :
          /\ hexes[i] \notin {f.hex : f \in files}
          /\ hexes[i] \notin {p.filename.hex : p \in photos}

\* the Photo rows one commit inserts for the names, in order
NewPhotos(P, names, entry_id) ==
    LET base == NextRowId(PhotoIds(P)) - 1
    IN  {[id |-> base + i, filename |-> names[i], entry_id |-> entry_id] :
            i \in 1..Len(names)}

----------------------------------------------------------------------------
(* The guard *)

\* a request in progress: where it is, the entry it works on, the uploads it
\* carries, the names it saved them under, the notices it flashed, the photos
\* its session has loaded
Idle ==
    [pc |-> "idle", entry_id |-> 0, uploads |-> <<>>, names |-> <<>>,
     flashed |-> <<>>, loaded |-> {}]

NoConcurrency == UNCHANGED <<saver, deleter>>

\* a guard that lets every request through
login_required_open(route, method, id, f) == f

login_required(route, method, id, f) ==
    IF load_user = 0
    THEN /\ resp' = Redirect(route, method, id, Loc("login", 0, route, id),
                             <<Flash("Please log in to do that.", "error")>>)
         /\ UNCHANGED <<users, session, entries, photos, files, env, today,
                        savedStart, lastAuth>>
         /\ NoConcurrency
    ELSE f

----------------------------------------------------------------------------
(* Login and logout *)

\* history only: a login with an existing username and its password, the
\* username compared as submitted
AcceptsExact(username, password) ==
    \E u \in users :
        /\ u.username = username
        /\ u.password_hash = generate_password_hash(password)

\* history only: the same, the username compared after stripping the
\* whitespace around it
AcceptsStripped(username, password) == AcceptsExact(Strip(username), password)

NoAuth == [exact |-> "none", stripped |-> "none"]

login(method, username, password, nxt) ==
    /\ UNCHANGED <<users, entries, photos, files, env, today, savedStart>>
    /\ NoConcurrency
    /\ IF method = "POST"
       THEN LET found == UserByName(Strip(username))
                ok == found /= {} /\ check_password(CHOOSE u \in found : TRUE, password)
            IN  IF ok
                THEN /\ session' = (CHOOSE u \in found : TRUE).id
                     /\ resp' = Redirect("login", method, 0,
                                    IF nxt /= NoLoc THEN nxt ELSE Loc("dashboard", 0, "", 0),
                                    <<Flash("Welcome back!", "success")>>)
                ELSE /\ session' = session
                     /\ resp' = Render("login", method, 0,
                                       <<Flash("Invalid credentials.", "error")>>)
       ELSE /\ session' = session
            /\ resp' = Render("login", method, 0, <<>>)
    /\ lastAuth' =
          [exact |-> IF method = "POST" /\ AcceptsExact(username, password)
                     THEN "login" ELSE lastAuth.exact,
           stripped |-> IF method = "POST" /\ AcceptsStripped(username, password)
                        THEN "login" ELSE lastAuth.stripped]

logout ==
    /\ session' = 0
    /\ resp' = Redirect("logout", "GET", 0, Loc("dashboard", 0, "", 0),
                        <<Flash("Logged out.", "success")>>)
    /\ lastAuth' = [exact |-> "logout", stripped |-> "logout"]
    /\ UNCHANGED <<users, entries, photos, files, env, today, savedStart>>
    /\ NoConcurrency

\* User.create, run outside the web application
UserCreate(username, password) ==
    /\ Cardinality(users) < MaxUsers
    /\ UserByName(username) = {}
    /\ users' = users \cup
          {[id |-> NextRowId({u.id : u \in users}), username |-> username,
            password_hash |-> generate_password_hash(password)]}
    /\ UNCHANGED <<session, entries, photos, files, env, today, resp,
                   savedStart, lastAuth>>
    /\ NoConcurrency

----------------------------------------------------------------------------
(* Create and edit *)

AbsentWhen == [kind |-> "absent", d |-> 0]

\* entry_id 0 stands for None (/entry/new); "if entry_id" treats both alike
entry_form_body(route, method, entry_id, whenIn, uploads, hexes) ==
    LET found == entry_id /= 0 /\ entry_id \in EntryIds(entries)
    IN
    /\ UNCHANGED <<users, session, env, today, lastAuth>>
    /\ NoConcurrency
    /\ IF method = "GET"
       THEN /\ resp' = Render(route, method, entry_id, <<>>)
            /\ UNCHANGED <<entries, photos, files, savedStart>>
       ELSE IF whenIn.kind = "bad"
       THEN \* strptime raises ValueError
            /\ resp' = Abort(route, method, entry_id, HttpServerError)
            /\ UNCHANGED <<entries, photos, files, savedStart>>
       ELSE LET when_d == IF whenIn.kind = "absent" THEN today ELSE whenIn.d
                old == EntryGet(entries, entry_id)
                \* an edit assigns entry.when before compute_day_number's
                \* query, which autoflushes it; a new Entry is built from the
                \* computed number and added to the session afterwards
                visible == IF found
                           THEN (entries \ {old}) \cup {[old EXCEPT !.when = when_d]}
                           ELSE entries
                dn == compute_day_number(when_d, visible, env, today)
                id == IF found THEN entry_id ELSE NextRowId(EntryIds(entries))
                saved == [id |-> id, when |-> when_d, day_number |-> dn]
                committed == IF found THEN (entries \ {old}) \cup {saved}
                             ELSE entries \cup {saved}
                up == save_uploaded_files(uploads, hexes)
                added == NewPhotos(photos, up.saved, id)
            IN  /\ FreshHexes(hexes, NumAllowed(uploads))
                /\ id <= MaxId
                /\ \A p \in added : p.id <= MaxPhotoId
                /\ entries' = committed
                /\ files' = files \cup Range(up.saved)
                /\ photos' = photos \cup added
                /\ savedStart' = [i \in EntryIds(committed) |->
                                    IF i = id
                                    THEN fast_start_date(visible, env, today)
                                    ELSE savedStart[i]]
                /\ resp' = Redirect(route, method, entry_id,
                                    Loc("view_entry", id, "", 0),
                                    up.flashed \o <<Flash("Entry saved.", "success")>>)

entry_form(route, method, entry_id, whenIn, uploads, hexes) ==
    login_required(route, method, entry_id,
                   entry_form_body(route, method, entry_id, whenIn, uploads, hexes))

----------------------------------------------------------------------------
(* View, list, delete *)

\* Entry.query.get_or_404
view_status(E, entry_id) ==
    IF entry_id \in EntryIds(E) THEN HttpOk ELSE HttpNotFound

view_entry(entry_id) ==
    /\ resp' = [BaseResp("view_entry", "GET", entry_id) EXCEPT
                   !.status = view_status(entries, entry_id)]
    /\ UNCHANGED <<users, session, entries, photos, files, env, today,
                   savedStart, lastAuth>>
    /\ NoConcurrency

list_entries ==
    /\ resp' = Render("list_entries", "GET", 0, <<>>)
    /\ UNCHANGED <<users, session, entries, photos, files, env, today,
                   savedStart, lastAuth>>
    /\ NoConcurrency

\* os.remove for each name, the OSError of a failing one swallowed
\* failing: the names for which os.remove raises OSError
\* a delete that leaves the files in place
RemoveAll_keep(F, names, failing) == F

RemoveAll(F, names, failing) == F \ (names \ failing)

delete_entry_body(entry_id, failing) ==
    /\ UNCHANGED <<users, session, env, today, lastAuth>>
    /\ NoConcurrency
    /\ IF entry_id \notin EntryIds(entries)
       THEN /\ resp' = Abort("delete_entry", "POST", entry_id, HttpNotFound)
            /\ UNCHANGED <<entries, photos, files, savedStart>>
       ELSE LET entry == EntryGet(entries, entry_id)
                owned == PhotosOf(photos, entry_id)
                names == {p.filename : p \in owned}
            IN  /\ files' = RemoveAll(files, names, failing)
                /\ photos' = photos \ owned
                /\ entries' = entries \ {entry}
                /\ savedStart' = [i \in EntryIds(entries) \ {entry_id} |-> savedStart[i]]
                /\ resp' = [Redirect("delete_entry", "POST", entry_id,
                                     Loc("list_entries", 0, "", 0),
                                     <<Flash("Entry deleted.", "success")>>)
                            EXCEPT !.removed = Cardinality(files \ files')]

delete_entry(entry_id, failing) ==
    login_required("delete_entry", "POST", entry_id,
                   delete_entry_body(entry_id, failing))

delete_photo_body(photo_id, failing) ==
    /\ UNCHANGED <<users, session, env, today, lastAuth, entries, savedStart>>
    /\ NoConcurrency
    /\ IF photo_id \notin PhotoIds(photos)
       THEN /\ resp' = Abort("delete_photo", "POST", photo_id, HttpNotFound)
            /\ UNCHANGED <<photos, files>>
       ELSE LET photo == PhotoGet(photos, photo_id)
            IN  /\ files' = RemoveAll(files, {photo.filename}, failing)
                /\ photos' = photos \ {photo}
                /\ resp' = [Redirect("delete_photo", "POST", photo_id,
                                     Loc("view_entry", photo.entry_id, "", 0),
                                     <<Flash("Photo removed.", "success")>>)
                            EXCEPT !.removed = Cardinality(files \ files')]

delete_photo(photo_id, failing) ==
    login_required("delete_photo", "POST", photo_id,
                   delete_photo_body(photo_id, failing))

----------------------------------------------------------------------------
(* Dashboard *)

\* a count that reads the day_number stored with each entry
DoneDays_stored(E, ev, now) ==
    Cardinality({e \in E : 1 <= e.day_number /\ e.day_number <= FastDays})

DoneDays(E, ev, now) ==
    Cardinality({e \in E :
        /\ 1 <= compute_day_number(e.when, E, ev, now)
        /\ compute_day_number(e.when, E, ev, now) <= FastDays})

MinOf(a, b) == IF a <= b THEN a ELSE b

MaxOf(a, b) == IF a >= b THEN a ELSE b

\* min(100, max(0, int(done_days / 7 * 100))): for done_days >= 0 the float
\* quotient times 100 truncates to the integer quotient of done_days * 100 by 7
\* a percentage that is not clamped
Progress_unclamped(done_days) == (done_days * FullPercent) \div FastDays

Progress(done_days) ==
    MinOf(FullPercent, MaxOf(0, (done_days * FullPercent) \div FastDays))

dashboard ==
    /\ resp' = [Render("dashboard", "GET", 0, <<>>) EXCEPT
                   !.start = fast_start_date(entries, env, today),
                   !.today_num = compute_day_number(today, entries, env, today),
                   !.done_days = DoneDays(entries, env, today),
                   !.progress = Progress(DoneDays(entries, env, today))]
    /\ UNCHANGED <<users, session, entries, photos, files, env, today,
                   savedStart, lastAuth>>
    /\ NoConcurrency

----------------------------------------------------------------------------
(* The environment *)

SetStartDate(ev) ==
    /\ ev /= env
    /\ env' = ev
    /\ UNCHANGED <<users, session, entries, photos, files, today, resp,
                   savedStart, lastAuth>>
    /\ NoConcurrency

NextDay ==
    /\ today < DMax
    /\ today' = today + 1
    /\ UNCHANGED <<users, session, entries, photos, files, env, resp,
                   savedStart, lastAuth>>
    /\ NoConcurrency

----------------------------------------------------------------------------
(* The requests of one client, served one at a time *)

Alice == <<"a">>

AlicePassword == "pw"

InitialUsers ==
    {[id |-> 1, username |-> Alice,
      password_hash |-> generate_password_hash(AlicePassword)]}

PngLower == <<"a", ".", "p", "n", "g">>

PngUpper == <<"b", ".", "P", "N", "G">>

TarGz == <<"c", ".", "t", "a", "r", ".", "g", "z">>

NoDot == <<"f", "i", "l", "e">>

\* the file lists a form submits
UploadLists ==
    { <<>>,
      <<PngLower>>,
      <<PngUpper, TarGz>>,
      <<<<>>, NoDot>>,
      <<PngLower, PngUpper>> }

Passwords == {AlicePassword, "bad"}

EntryRoutes == {<<"entry_new", 0>>} \cup {<<"entry_edit", i>> : i \in 1..(MaxId + 1)}

Init ==
    /\ users = InitialUsers
    /\ session = 0
    /\ entries = {}
    /\ photos = {}
    /\ files = {}
    /\ env = NoEnv
    /\ today = 0
    /\ resp = BaseResp("", "", 0)
    /\ savedStart = <<>>
    /\ lastAuth = NoAuth
    /\ saver = Idle
    /\ deleter = Idle

Login == \E method \in {"GET", "POST"}, password \in Passwords :
            login(method, Alice, password, NoLoc)

Logout == logout

\* the form is read by the handler's body only
EntryForm ==
    \E r \in EntryRoutes :
        \/ entry_form(r[1], "GET", r[2], AbsentWhen, <<>>, <<>>)
        \/ login_required(r[1], "POST", r[2],
              \/ entry_form_body(r[1], "POST", r[2], [kind |-> "bad", d |-> 0], <<>>, <<>>)
              \/ \E uploads \in UploadLists :
                    \E hexes \in [1..NumAllowed(uploads) -> 1..MaxHex] :
                        entry_form_body(r[1], "POST", r[2], AbsentWhen, uploads, hexes))

ViewEntry == \E i \in 0..(MaxId + 1) : view_entry(i)

ListEntries == list_entries

DeleteEntry ==
    \E i \in 0..(MaxId + 1) :
        \E failing \in SUBSET {p.filename : p \in PhotosOf(photos, i)} :
            delete_entry(i, failing)

DeletePhoto ==
    \E i \in 0..(MaxPhotoId + 1) :
        \E failing \in SUBSET {p.filename : p \in {q \in photos : q.id = i}} :
            delete_photo(i, failing)

Next ==
    \/ Login
    \/ Logout
    \/ EntryForm
    \/ ViewEntry
    \/ ListEntries
    \/ DeleteEntry
    \/ DeletePhoto

Spec == Init /\ [][Next]_vars

----------------------------------------------------------------------------
(* Claims about the guard and the stores *)

\* C1: a request to a guarded route made while no user is attached to it is
\* answered by a redirect to the login page that carries the requested path,
\* records exactly one notice, and leaves entries, photos and files as they were
\* (every step is one request, and resp' names the route that served it)
C1_GuardRedirects ==
    [][(load_user = 0 /\ resp'.route \in GuardedRoutes) =>
          /\ IsLoginRedirect(resp')
          /\ resp'.loc.nroute = resp'.route
          /\ resp'.loc.nid = resp'.id
          /\ resp'.flashed = <<Flash("Please log in to do that.", "error")>>
          /\ UNCHANGED store]_vars

C1_Witness ==
    /\ resp.route = "delete_entry"
    /\ resp.guser = 0
    /\ IsLoginRedirect(resp)
    /\ resp.id \in EntryIds(entries)
    /\ PhotosOf(photos, resp.id) /= {}

\* C2: after any sequence of completed requests every Photo row names, in
\* entry_id, an Entry row that exists
C2_PhotoHasEntry == \A p \in photos : p.entry_id \in EntryIds(entries)

C2_Witness ==
    /\ resp.route = "delete_entry"
    /\ resp.removed >= 1
    /\ photos /= {}

\* C3: an authenticated delete of an existing entry, with no filesystem error,
\* removes the files of all its photos, the entry and its photo rows, leaves
\* every other entry, photo and file alone, and a view of that id made next
\* is not found
C3_DeleteEntryRemovesAll ==
    [][\A i \in 0..(MaxId + 1) :
          (load_user /= 0 /\ i \in EntryIds(entries) /\ delete_entry(i, {})) =>
             LET owned == {p \in photos : p.entry_id = i}
                 names == {p.filename : p \in owned}
             IN  /\ files' = files \ names
                 /\ photos' = photos \ owned
                 /\ entries' = {e \in entries : e.id /= i}
                 /\ view_status(entries', i) = HttpNotFound]_vars

C3_Witness ==
    /\ resp.route = "delete_entry"
    /\ resp.loc.route = "list_entries"
    /\ resp.removed >= 1
    /\ entries /= {}
    /\ photos /= {}
    /\ Cardinality(files) = Cardinality(photos)

\* C4: an authenticated request that names an entry id or a photo id no row
\* has ends with a not-found failure and leaves entries, photos and files as
\* they were
C4_UnknownIdNotFound ==
    [][/\ \A i \in 1..(MaxId + 1) :
             (/\ load_user /= 0
              /\ i \notin EntryIds(entries)
              /\ \/ view_entry(i)
                 \/ delete_entry(i, {})
                 \/ (resp'.route = "entry_edit" /\ resp'.id = i /\ EntryForm)) =>
                (resp'.status = HttpNotFound /\ UNCHANGED store)
       /\ \A i \in 1..(MaxPhotoId + 1) :
             (/\ load_user /= 0
              /\ i \notin PhotoIds(photos)
              /\ delete_photo(i, {})) =>
                (resp'.status = HttpNotFound /\ UNCHANGED store)]_vars

----------------------------------------------------------------------------
(* Logins, logouts and guarded requests of one client session *)

Bob == <<"b">>

PaddedAlice == <<" ", "a", " ">>

PaddedBob == <<" ", "b">>

BobPassword == "pw2"

CreateNames == {Alice, PaddedBob, Bob}

LoginNames == {Alice, PaddedAlice, PaddedBob, Bob}

AuthPasswords == {AlicePassword, BobPassword}

InitAuth ==
    /\ users = {}
    /\ session = 0
    /\ entries = {}
    /\ photos = {}
    /\ files = {}
    /\ env = NoEnv
    /\ today = 0
    /\ resp = BaseResp("", "", 0)
    /\ savedStart = <<>>
    /\ lastAuth = NoAuth
    /\ saver = Idle
    /\ deleter = Idle

AuthUserCreate ==
    \E username \in CreateNames, password \in AuthPasswords :
        UserCreate(username, password)

AuthLogin ==
    \E method \in {"GET", "POST"}, username \in LoginNames,
       password \in AuthPasswords, nxt \in {NoLoc, Loc("entry_new", 0, "", 0)} :
        login(method, username, password, nxt)

AuthLogout == logout

AuthEntryForm ==
    \E method \in {"GET", "POST"} :
        entry_form("entry_new", method, 0, AbsentWhen, <<>>, <<>>)

AuthDeleteEntry == \E i \in 1..MaxId : delete_entry(i, {})

AuthDeletePhoto == delete_photo(1, {})

NextAuth ==
    \/ AuthUserCreate
    \/ AuthLogin
    \/ AuthLogout
    \/ AuthEntryForm
    \/ AuthDeleteEntry
    \/ AuthDeletePhoto

SpecAuth == InitAuth /\ [][NextAuth]_vars

AuthGuardedRequest == AuthEntryForm \/ AuthDeleteEntry \/ AuthDeletePhoto

\* C5 as claimed: a guarded request proceeds without the login redirect
\* exactly when the client's most recent session-changing event was a login
\* with an existing username and its password; a login POST with an unknown
\* username or a wrong password leaves the session as it was; a logout leaves
\* the session empty
C5_SessionFollowsExactLogin ==
    [][/\ AuthGuardedRequest =>
             (~IsLoginRedirect(resp') <=> lastAuth.exact = "login")
       /\ \A u \in LoginNames, p \in AuthPasswords, n \in {NoLoc, Loc("entry_new", 0, "", 0)} :
             (login("POST", u, p, n) /\ ~AcceptsExact(u, p)) => session' = session
       /\ logout => session' = 0]_vars

\* C5 amended: the same, where the username of a login is compared with the
\* existing usernames after the whitespace around it is stripped
C5_SessionFollowsStrippedLogin ==
    [][/\ AuthGuardedRequest =>
             (~IsLoginRedirect(resp') <=> lastAuth.stripped = "login")
       /\ \A u \in LoginNames, p \in AuthPasswords, n \in {NoLoc, Loc("entry_new", 0, "", 0)} :
             (login("POST", u, p, n) /\ ~AcceptsStripped(u, p)) => session' = session
       /\ logout => session' = 0]_vars

\* a guarded request proceeds after login, logout, and a failed login with a
\* padded username that exists only unpadded ... then a padded login succeeds
C5_Witness ==
    /\ resp.route = "entry_new"
    /\ resp.method = "POST"
    /\ ~IsLoginRedirect(resp)
    /\ lastAuth.stripped = "login"
    /\ lastAuth.exact = "logout"

----------------------------------------------------------------------------
(* Saves and deletes of dated entries under a changing start date *)

Dates == 0..DMax

EnvValues ==
    {NoEnv, [kind |-> "garbage", d |-> 0]} \cup {[kind |-> "date", d |-> d] : d \in Dates}

DayLogin == login("POST", Alice, AlicePassword, NoLoc)

DayEntryForm ==
    \E r \in {<<"entry_new", 0>>} \cup {<<"entry_edit", i>> : i \in 1..MaxId},
       whenIn \in {AbsentWhen} \cup {[kind |-> "date", d |-> d] : d \in Dates} :
        entry_form(r[1], "POST", r[2], whenIn, <<>>, <<>>)

DayDeleteEntry == \E i \in 1..MaxId : delete_entry(i, {})

DaySetStartDate == \E ev \in EnvValues : SetStartDate(ev)

DayNextDay == NextDay

NextDayNumbers ==
    \/ DayLogin
    \/ DayEntryForm
    \/ DayDeleteEntry
    \/ DaySetStartDate
    \/ DayNextDay

SpecDay == Init /\ [][NextDayNumbers]_vars

\* the step is a successful save of the entry with this id
Saves(i) ==
    /\ DayEntryForm
    /\ resp'.loc.route = "view_entry"
    /\ resp'.loc.id = i

\* C8: every entry's stored day_number is (when - S) + 1 for the start date S
\* that fast_start_date() gave when the entry was last saved, and no request
\* or change of FAST_START_DATE alters the stored day_number of an entry other
\* than the one being saved
C8_DayNumberOfLastSave ==
    /\ [](\A e \in entries : e.day_number = (e.when - savedStart[e.id]) + 1)
    /\ [][\A e \in entries : \A f \in entries' :
             (f.id = e.id /\ (f.day_number /= e.day_number \/ f.when /= e.when)) =>
                Saves(e.id)]_vars

\* an entry whose stored number no longer is what the current start date
\* gives, after another entry became the earliest
C8_Witness ==
    /\ env.kind = "unset"
    /\ Cardinality(entries) >= 2
    /\ \E e \in entries :
          /\ e.day_number /= compute_day_number(e.when, entries, env, today)
          /\ resp.loc.route = "view_entry"
          /\ resp.loc.id /= e.id

\* C10: right after a successful create or edit POST the saved entry's stored
\* day_number equals compute_day_number(entry.when) on the store the request
\* committed
C10_SavedNumberIsCurrent ==
    [][\A i \in 1..MaxId :
          Saves(i) =>
             LET e == EntryGet(entries', i)
             IN  e.day_number = compute_day_number(e.when, entries', env', today')]_vars

----------------------------------------------------------------------------
(* The dashboard over diaries of up to FastDays + 1 dates *)

DashDates == 0..FastDays

\* the diary after one entry was saved for each date of present, in date
\* order, and then extra more for the earliest of them, all while
\* FAST_START_DATE was start
DashEntries(present, extra, start) ==
    LET rank(d) == Cardinality({x \in present : x <= d})
        row(i, d) == [id |-> i, when |-> d, day_number |-> (d - start) + 1]
    IN  {row(rank(d), d) : d \in present} \cup
        (IF present = {} THEN {}
         ELSE {row(Cardinality(present) + k, Min(present)) : k \in 1..extra})

InitDash ==
    \E present \in SUBSET DashDates, extra \in 0..MaxPerDay, start \in 0..MaxStart :
        /\ (present = {}) => (extra = 0)
        /\ users = InitialUsers
        /\ session = 1
        /\ entries = DashEntries(present, extra, start)
        /\ photos = {}
        /\ files = {}
        /\ env = [kind |-> "date", d |-> start]
        /\ today = 0
        /\ resp = BaseResp("", "", 0)
        /\ savedStart = [i \in EntryIds(DashEntries(present, extra, start)) |-> start]
        /\ lastAuth = [exact |-> "login", stripped |-> "login"]
        /\ saver = Idle
        /\ deleter = Idle

Dashboard == dashboard

DashSetStartDate ==
    \E ev \in {NoEnv} \cup {[kind |-> "date", d |-> d] : d \in 0..MaxStart} :
        SetStartDate(ev)

NextDash ==
    \/ Dashboard
    \/ DashSetStartDate

SpecDash == InitDash /\ [][NextDash]_vars

Clamp(x, lo, hi) == IF x < lo THEN lo ELSE IF x > hi THEN hi ELSE x

\* x / 7 rounded to the nearest integer, for x >= 0 (a seventh is never a tie)
RoundSevenths(x) == CHOOSE q \in 0..x : 2 * FastDays * q - FastDays < 2 * x
                                        /\ 2 * x < 2 * FastDays * q + FastDays

\* x / 7 truncated, for x >= 0
TruncSevenths(x) == CHOOSE q \in 0..x : FastDays * q <= x /\ x < FastDays * (q + 1)

\* the day number the dashboard uses for an entry
LiveDay(e) == (e.when - fast_start_date(entries, env, today)) + 1

\* C6 as claimed: the dashboard's progress is
\* clamp(round(done_days / 7 * 100), 0, 100), done_days being the number of
\* entries whose day number lies in 1..7
C6_ProgressRounds ==
    [][dashboard =>
          /\ resp'.done_days = Cardinality({e \in entries : LiveDay(e) \in 1..FastDays})
          /\ resp'.progress =
                Clamp(RoundSevenths(resp'.done_days * FullPercent), 0, FullPercent)]_vars

\* C6 amended: the dashboard's progress is
\* clamp(trunc(done_days / 7 * 100), 0, 100)
C6_ProgressTruncates ==
    [][dashboard =>
          /\ resp'.done_days = Cardinality({e \in entries : LiveDay(e) \in 1..FastDays})
          /\ resp'.progress =
                Clamp(TruncSevenths(resp'.done_days * FullPercent), 0, FullPercent)]_vars

\* the dashboard has shown a percentage that rounding would change, and one
\* that the clamp cut
C6_Witness ==
    /\ resp.route = "dashboard"
    /\ \/ resp.done_days = 2 /\ resp.progress = 28
       \/ resp.done_days > FastDays /\ resp.progress = FullPercent

\* C7 as claimed: progress is 0 for no entries, 100 for 7 entries whose stored
\* day_number values are 1..7, and 0 when every stored day_number is outside
\* 1..7, whatever FAST_START_DATE is when the dashboard is requested
C7_ProgressOfStoredNumbers ==
    [][dashboard =>
          /\ (entries = {}) => resp'.progress = 0
          /\ (/\ Cardinality(entries) = FastDays
              /\ {e.day_number : e \in entries} = 1..FastDays) =>
                resp'.progress = FullPercent
          /\ (entries /= {} /\ \A e \in entries : e.day_number \notin 1..FastDays) =>
                resp'.progress = 0]_vars

\* C7 amended: the same for the day numbers that compute_day_number gives for
\* the entries' dates when the dashboard is requested
C7_ProgressOfLiveNumbers ==
    [][dashboard =>
          /\ (entries = {}) => resp'.progress = 0
          /\ (/\ Cardinality(entries) = FastDays
              /\ {LiveDay(e) : e \in entries} = 1..FastDays) =>
                resp'.progress = FullPercent
          /\ (entries /= {} /\ \A e \in entries : LiveDay(e) \notin 1..FastDays) =>
                resp'.progress = 0]_vars

\* 7 entries on days 1..7 of the start date now in effect, saved under
\* another start date, shown as 100
C7_Witness ==
    /\ resp.route = "dashboard"
    /\ resp.progress = FullPercent
    /\ resp.start = fast_start_date(entries, env, today)
    /\ Cardinality(entries) = FastDays
    /\ {LiveDay(e) : e \in entries} = 1..FastDays
    /\ {e.day_number : e \in entries} /= 1..FastDays

----------------------------------------------------------------------------
(* A create/edit POST and a delete-entry POST served concurrently, each in  *)
(* its own database session.  A step is what one session does between two  *)
(* points where the other can run: up to a commit, a file operation, or a   *)
(* query that reads committed rows.                                         *)

InitConc ==
    \E existing \in {0, 1}, attached \in {0, 1} :
        /\ attached <= existing
        /\ users = InitialUsers
        /\ session = 1
        /\ entries = {[id |-> i, when |-> 0, day_number |-> 1] : i \in 1..existing}
        /\ photos = {[id |-> i, filename |-> StoredName(1, <<"p", "n", "g">>),
                      entry_id |-> 1] : i \in 1..attached}
        /\ files = {StoredName(1, <<"p", "n", "g">>) : i \in 1..attached}
        /\ env = NoEnv
        /\ today = 0
        /\ resp = BaseResp("", "", 0)
        /\ savedStart = [i \in 1..existing |-> 0]
        /\ lastAuth = [exact |-> "login", stripped |-> "login"]
        /\ saver = Idle
        /\ deleter = Idle

\* entry_form, lines 201-230: the upsert and the first commit
SaverCommitEntry(route, entry_id, whenIn, uploads) ==
    LET found == entry_id /= 0 /\ entry_id \in EntryIds(entries)
        when_d == IF whenIn.kind = "absent" THEN today ELSE whenIn.d
        old == EntryGet(entries, entry_id)
        visible == IF found
                   THEN (entries \ {old}) \cup {[old EXCEPT !.when = when_d]}
                   ELSE entries
        id == IF found THEN entry_id ELSE NextRowId(EntryIds(entries))
        saved == [id |-> id, when |-> when_d,
                  day_number |-> compute_day_number(when_d, visible, env, today)]
        committed == IF found THEN (entries \ {old}) \cup {saved}
                     ELSE entries \cup {saved}
    IN  /\ saver.pc = "idle"
        /\ load_user /= 0
        /\ id <= MaxId
        /\ entries' = committed
        /\ savedStart' = [i \in EntryIds(committed) |->
                            IF i = id THEN fast_start_date(visible, env, today)
                            ELSE savedStart[i]]
        /\ saver' = [Idle EXCEPT !.pc = "committed", !.entry_id = id,
                                 !.uploads = uploads]
        /\ UNCHANGED <<users, session, photos, files, env, today, resp,
                       lastAuth, deleter>>

\* line 233: save_uploaded_files writes the files
SaverSaveFiles(hexes) ==
    /\ saver.pc = "committed"
    /\ FreshHexes(hexes, NumAllowed(saver.uploads))
    /\ files' = files \cup Range(save_uploaded_files(saver.uploads, hexes).saved)
    /\ saver' = [saver EXCEPT !.pc = "saved",
                              !.names = save_uploaded_files(saver.uploads, hexes).saved,
                              !.flashed = save_uploaded_files(saver.uploads, hexes).flashed]
    /\ UNCHANGED <<users, session, entries, photos, env, today, resp,
                   savedStart, lastAuth, deleter>>

\* lines 234-235: Photo(entry_id=entry.id); the commit expired entry, so
\* reading entry.id selects its row again and raises ObjectDeletedError when
\* the row is gone
SaverAddPhotos ==
    /\ saver.pc = "saved"
    /\ IF saver.names /= <<>> /\ saver.entry_id \notin EntryIds(entries)
       THEN /\ saver' = [saver EXCEPT !.pc = "failed"]
            /\ resp' = Abort("entry_form", "POST", saver.entry_id, HttpServerError)
       ELSE /\ saver' = [saver EXCEPT !.pc = "added"]
            /\ resp' = resp
    /\ UNCHANGED <<users, session, entries, photos, files, env, today,
                   savedStart, lastAuth, deleter>>

\* line 236: the second commit inserts the Photo rows; SQLite does not check
\* the foreign key
SaverCommitPhotos ==
    /\ saver.pc = "added"
    /\ \A p \in NewPhotos(photos, saver.names, saver.entry_id) : p.id <= MaxPhotoId
    /\ photos' = photos \cup NewPhotos(photos, saver.names, saver.entry_id)
    /\ saver' = [saver EXCEPT !.pc = "done"]
    /\ resp' = IF saver.entry_id \in EntryIds(entries)
               THEN Redirect("entry_form", "POST", saver.entry_id,
                             Loc("view_entry", saver.entry_id, "", 0),
                             saver.flashed \o <<Flash("Entry saved.", "success")>>)
               ELSE Abort("entry_form", "POST", saver.entry_id, HttpServerError)
    /\ UNCHANGED <<users, session, entries, files, env, today,
                   savedStart, lastAuth, deleter>>

\* delete_entry, line 253: get_or_404
DeleterLoadEntry(entry_id) ==
    /\ deleter.pc = "idle"
    /\ load_user /= 0
    /\ IF entry_id \in EntryIds(entries)
       THEN /\ deleter' = [Idle EXCEPT !.pc = "entry", !.entry_id = entry_id]
            /\ resp' = resp
       ELSE /\ deleter' = [Idle EXCEPT !.pc = "done", !.entry_id = entry_id]
            /\ resp' = Abort("delete_entry", "POST", entry_id, HttpNotFound)
    /\ UNCHANGED <<users, session, entries, photos, files, env, today,
                   savedStart, lastAuth, saver>>

\* line 254: entry.photos is loaded, once, into the session
DeleterLoadPhotos ==
    /\ deleter.pc = "entry"
    /\ deleter' = [deleter EXCEPT !.pc = "photos",
                                  !.loaded = PhotosOf(photos, deleter.entry_id)]
    /\ UNCHANGED <<users, session, entries, photos, files, env, today, resp,
                   savedStart, lastAuth, saver>>

\* lines 254-258: the files of the loaded photos are removed
DeleterRemoveFiles ==
    /\ deleter.pc = "photos"
    /\ files' = RemoveAll(files, {p.filename : p \in deleter.loaded}, {})
    /\ deleter' = [deleter EXCEPT !.pc = "removed"]
    /\ UNCHANGED <<users, session, entries, photos, env, today, resp,
                   savedStart, lastAuth, saver>>

\* lines 259-260: the cascade deletes the loaded Photo rows, then the Entry
\* row, and commits
DeleterCommit ==
    /\ deleter.pc = "removed"
    /\ photos' = {p \in photos : p.id \notin PhotoIds(deleter.loaded)}
    /\ entries' = {e \in entries : e.id /= deleter.entry_id}
    /\ savedStart' = [i \in EntryIds(entries) \ {deleter.entry_id} |-> savedStart[i]]
    /\ deleter' = [deleter EXCEPT !.pc = "done"]
    /\ resp' = Redirect("delete_entry", "POST", deleter.entry_id,
                        Loc("list_entries", 0, "", 0),
                        <<Flash("Entry deleted.", "success")>>)
    /\ UNCHANGED <<users, session, files, env, today, lastAuth, saver>>

ConcSaverStart ==
    \E r \in {<<"entry_new", 0>>, <<"entry_edit", 1>>},
       whenIn \in {AbsentWhen, [kind |-> "date", d |-> 1]},
       uploads \in UploadLists :
        SaverCommitEntry(r[1], r[2], whenIn, uploads)

ConcSaverSaveFiles ==
    \E hexes \in [1..NumAllowed(saver.uploads) -> 1..MaxHex] : SaverSaveFiles(hexes)

ConcDeleterStart == \E i \in 1..MaxId : DeleterLoadEntry(i)

NextConc ==
    \/ ConcSaverStart
    \/ ConcSaverSaveFiles
    \/ SaverAddPhotos
    \/ SaverCommitPhotos
    \/ ConcDeleterStart
    \/ DeleterLoadPhotos
    \/ DeleterRemoveFiles
    \/ DeleterCommit

SpecConc == InitConc /\ [][NextConc]_vars

\* C9: when a create/edit POST with valid uploads for an entry and a delete
\* POST for the same entry run concurrently, no interleaving ends with a Photo
\* row whose entry_id names no Entry row
C9_NoOrphanAfterRace ==
    (/\ saver.pc \in {"done", "failed"}
     /\ deleter.pc = "done"
     /\ deleter.entry_id = saver.entry_id
     /\ saver.names /= <<>>) =>
        \A p \in photos : p.entry_id \in EntryIds(entries)

====
